---- MODULE Spec2Model ----
(***************************************************************************)
(* A model of src/index.js, the utilities of the ISPW GitHub actions:      *)
(* input validation, assembly of the generate request's URL and body, the  *)
(* HTTP promise, and the interpretation of the response body.              *)
(*                                                                         *)
(* Text is a sequence of one-character strings, so that toLowerCase,       *)
(* lastIndexOf, substr, JSON.stringify and JSON.parse are computed         *)
(* character by character, as the JavaScript runtime computes them.        *)
(***************************************************************************)
EXTENDS Integers, Sequences, FiniteSets, TLC

----------------------------------------------------------------------------
(* Bounds of the model *)

\* the longest array among the values converted to JSON and back
MaxArrayLen == 2
\* the longest taskIds list of a BuildParms handed to assembleRequestUrl
MaxTaskIds == 2
\* the largest chunk (in characters) of one response 'data' event
MaxChunk == 2

----------------------------------------------------------------------------
(* Text literals of the source *)

T_compuware == <<"/", "c", "o", "m", "p", "u", "w", "a", "r", "e">>
T_ispw == <<"/", "i", "s", "p", "w">>
T_slash == <<"/">>
T_ispwSlash == <<"/", "i", "s", "p", "w", "/">>
T_assignments == <<"/", "a", "s", "s", "i", "g", "n", "m", "e", "n", "t", "s", "/">>
T_generateAwait == <<"/", "t", "a", "s", "k", "I", "d", "s", "/", "g", "e", "n", "e", "r", "a", "t", "e", "-", "a", "w", "a", "i", "t", "?">>
T_taskIdEq == <<"t", "a", "s", "k", "I", "d", "=">>
T_amp == <<"&">>
T_levelEq == <<"l", "e", "v", "e", "l", "=">>
T_true == <<"t", "r", "u", "e">>
T_nl == <<"\n">>
T_missingPrefix == <<"M", "i", "s", "s", "i", "n", "g", " ", "i", "n", "p", "u", "t", ":", " ", "a">>
T_missingSuffix == <<" ", "m", "u", "s", "t", " ", "b", "e", " ", "s", "p", "e", "c", "i", "f", "i", "e", "d", ".">>
T_undefined == <<"u", "n", "d", "e", "f", "i", "n", "e", "d">>
L_containerId == <<"n", " ", "a", "s", "s", "i", "g", "n", "m", "e", "n", "t", " ", "I", "D">>
L_releaseId == <<" ", "r", "e", "l", "e", "a", "s", "e", " ", "I", "D">>
L_taskLevel == <<" ", "l", "e", "v", "e", "l">>
L_taskIds == <<" ", "l", "i", "s", "t", " ", "o", "f", " ", "t", "a", "s", "k", " ", "I", "D", "s">>
K_awaitStatus == <<"a", "w", "a", "i", "t", "S", "t", "a", "t", "u", "s">>
K_generateFailedCount == <<"g", "e", "n", "e", "r", "a", "t", "e", "F", "a", "i", "l", "e", "d", "C", "o", "u", "n", "t">>
K_statusMsg == <<"s", "t", "a", "t", "u", "s", "M", "s", "g">>
K_message == <<"m", "e", "s", "s", "a", "g", "e">>
K_runtimeConfig == <<"r", "u", "n", "t", "i", "m", "e", "C", "o", "n", "f", "i", "g">>
K_changeType == <<"c", "h", "a", "n", "g", "e", "T", "y", "p", "e">>
K_execStat == <<"e", "x", "e", "c", "S", "t", "a", "t">>
K_autoDeploy == <<"a", "u", "t", "o", "D", "e", "p", "l", "o", "y">>
K_containerId == <<"c", "o", "n", "t", "a", "i", "n", "e", "r", "I", "d">>
K_releaseId == <<"r", "e", "l", "e", "a", "s", "e", "I", "d">>
K_taskLevel == <<"t", "a", "s", "k", "L", "e", "v", "e", "l">>
K_taskIds == <<"t", "a", "s", "k", "I", "d", "s">>
T_http == <<"h", "t", "t", "p">>
T_https == <<"h", "t", "t", "p", "s">>
T_80 == <<"8", "0">>
T_443 == <<"4", "4", "3">>
T_null == <<"n", "u", "l", "l">>
T_false == <<"f", "a", "l", "s", "e">>
T_upper == <<"A", "B", "C", "D", "E", "F", "G", "H", "I", "J", "K", "L", "M", "N", "O", "P", "Q", "R", "S", "T", "U", "V", "W", "X", "Y", "Z">>
T_lower == <<"a", "b", "c", "d", "e", "f", "g", "h", "i", "j", "k", "l", "m", "n", "o", "p", "q", "r", "s", "t", "u", "v", "w", "x", "y", "z">>
T_digits == <<"0", "1", "2", "3", "4", "5", "6", "7", "8", "9">>
M_noResponse == "No response was received from the generate request."
M_notComplete == "The generate did not complete successfully."
M_failures == "There were generate failures."

----------------------------------------------------------------------------
(* JavaScript values: a tag t and, but for undefined and null, a payload v. *)
(* A string's payload is its text, an array's its elements, an object's    *)
(* its own properties [k, v] in insertion order.                           *)

Undefined == [t |-> "undefined"]
Null == [t |-> "null"]
Bool(b) == [t |-> "boolean", v |-> b]
Num(n) == [t |-> "number", v |-> n]
Str(s) == [t |-> "string", v |-> s]
Arr(a) == [t |-> "array", v |-> a]
Obj(e) == [t |-> "object", v |-> e]

\* o[key] of a value that is neither undefined nor null
Get(o, key) ==
  IF o.t = "object" /\ \E i \in 1..Len(o.v) : o.v[i].k = key
    THEN o.v[CHOOSE i \in 1..Len(o.v) : o.v[i].k = key].v
    ELSE Undefined

\* o[key] = val on an object: an own property keeps its place
Set(o, key, val) ==
  IF \E i \in 1..Len(o.v) : o.v[i].k = key
    THEN Obj([i \in 1..Len(o.v) |->
               IF o.v[i].k = key THEN [k |-> key, v |-> val] ELSE o.v[i]])
    ELSE Obj(Append(o.v, [k |-> key, v |-> val]))

\* reading a property of undefined or null throws a TypeError
ThrowsOnRead(o) == o.t \in {"undefined", "null"}

\* inputStr.length === 0
LengthIsZero(x) == x.t \in {"string", "array"} /\ Len(x.v) = 0

\* if (x): the falsy values are undefined, null, false, 0 and ''
Truthy(x) ==
  CASE x.t \in {"undefined", "null"} -> FALSE
    [] x.t = "boolean" -> x.v
    [] x.t = "number" -> x.v # 0
    [] x.t = "string" -> Len(x.v) > 0
    [] OTHER -> TRUE

----------------------------------------------------------------------------
(* stringHasContent, validateBuildParms, getMissingInputMessage *)

stringHasContent(inputStr) ==
  ~(inputStr = Null \/ inputStr = Undefined \/ LengthIsZero(inputStr))

getMissingInputMessage(fieldName) ==
  LET fieldNameReplacement ==
        CASE fieldName = K_containerId -> L_containerId
          [] fieldName = K_releaseId -> L_releaseId
          [] fieldName = K_taskLevel -> L_taskLevel
          [] fieldName = K_taskIds -> L_taskIds
          [] OTHER -> T_undefined
  IN T_missingPrefix \o fieldNameReplacement \o T_missingSuffix

\* a validation that gives up at the first field without content
RECURSIVE ValidateFields_stopAtFirst(_, _, _)
ValidateFields_stopAtFirst(buildParms, requiredFields, st) ==
  IF requiredFields = <<>> THEN st
  ELSE IF ~stringHasContent(Get(buildParms, Head(requiredFields)))
    THEN [isValid |-> FALSE,
          console |-> Append(st.console,
             [level |-> "error", text |-> getMissingInputMessage(Head(requiredFields))])]
    ELSE ValidateFields_stopAtFirst(buildParms, Tail(requiredFields), st)

\* one pass of requiredFields.forEach: st is [isValid, console]
RECURSIVE ValidateFields(_, _, _)
ValidateFields(buildParms, requiredFields, st) ==
  IF requiredFields = <<>> THEN st
  ELSE LET field == Head(requiredFields)
           next == IF ~stringHasContent(Get(buildParms, field))
                     THEN [isValid |-> FALSE,
                           console |-> Append(st.console,
                              [level |-> "error", text |-> getMissingInputMessage(field)])]
                     ELSE st
       IN ValidateFields(buildParms, Tail(requiredFields), next)

\* returns [ret, console]: the boolean returned and the lines written
validateBuildParms(buildParms, requiredFields) ==
  IF buildParms # Null /\ buildParms # Undefined
    THEN LET st == ValidateFields(buildParms, requiredFields,
                                  [isValid |-> TRUE, console |-> <<>>])
         IN [ret |-> st.isValid, console |-> st.console]
    ELSE [ret |-> FALSE, console |-> <<>>]

----------------------------------------------------------------------------
(* Text operations of the JavaScript runtime *)

\* one character of String.prototype.toLowerCase
LowerChar(c) ==
  IF \E i \in 1..Len(T_upper) : T_upper[i] = c
    THEN T_lower[CHOOSE i \in 1..Len(T_upper) : T_upper[i] = c]
    ELSE c

toLowerCase(s) == [i \in 1..Len(s) |-> LowerChar(s[i])]

\* the 0-based positions at which pat occurs in s
Occurrences(s, pat) ==
  {i \in 0..(Len(s) - Len(pat)) : SubSeq(s, i + 1, i + Len(pat)) = pat}

Max(S) == CHOOSE m \in S : \A n \in S : n <= m
Min(S) == CHOOSE m \in S : \A n \in S : m <= n

\* String.prototype.lastIndexOf: the last position of pat in s, or -1
lastIndexOf(s, pat) ==
  IF Occurrences(s, pat) = {} THEN -1 ELSE Max(Occurrences(s, pat))

\* s.substr(0, n)
substr0(s, n) == SubSeq(s, 1, n)

endsWith(s, suffix) ==
  Len(s) >= Len(suffix) /\ SubSeq(s, Len(s) - Len(suffix) + 1, Len(s)) = suffix

\* the decimal digits of a natural number
RECURSIVE NumText(_)
NumText(n) ==
  IF n < 10 THEN <<T_digits[n + 1]>>
  ELSE NumText(n \div 10) \o <<T_digits[(n % 10) + 1]>>

\* `${x}` and String.prototype.concat(x): the text of a primitive value
ToText(x) ==
  CASE x.t = "string" -> x.v
    [] x.t = "number" -> NumText(x.v)
    [] x.t = "boolean" -> IF x.v THEN T_true ELSE T_false
    [] x.t = "null" -> T_null
    [] OTHER -> T_undefined

----------------------------------------------------------------------------
(* new URL(text), for the http and https URLs the model assembles *)

\* the first position at or after from of a character of set in s, or Len(s)+1
FirstIn(s, from, set) ==
  IF \E i \in from..Len(s) : s[i] \in set
    THEN Min({i \in from..Len(s) : s[i] \in set})
    ELSE Len(s) + 1

\* the first position at or after from of a character not in set, or Len(s)+1
FirstNotIn(s, from, set) ==
  IF \E i \in from..Len(s) : s[i] \notin set
    THEN Min({i \in from..Len(s) : s[i] \notin set})
    ELSE Len(s) + 1

\* The URL parser on a special scheme: the scheme is lower-cased, every slash
\* after "scheme:" is skipped, the host runs to the next "/", "?" or "#" and is
\* lower-cased, the scheme's default port is dropped, an empty path is "/".
\* A text with no scheme, another scheme or no host throws a TypeError (the
\* model assembles no URL of another scheme).
URLParse(s) ==
  LET colon == FirstIn(s, 1, {":"})
      scheme == toLowerCase(SubSeq(s, 1, colon - 1))
      authStart == FirstNotIn(s, colon + 1, {"/", "\\"})
      authEnd == FirstIn(s, authStart, {"/", "?", "#"})
      authority == SubSeq(s, authStart, authEnd - 1)
      portColon == lastIndexOf(authority, <<":">>)
      hostname == toLowerCase(IF portColon < 0 THEN authority
                               ELSE substr0(authority, portColon))
      rawPort == IF portColon < 0 THEN <<>>
                 ELSE SubSeq(authority, portColon + 2, Len(authority))
      defaultPort == IF scheme = T_http THEN T_80 ELSE T_443
      port == IF rawPort = defaultPort THEN <<>> ELSE rawPort
      pathEnd == FirstIn(s, authEnd, {"?", "#"})
      rawPath == SubSeq(s, authEnd, pathEnd - 1)
      pathname == IF rawPath = <<>> THEN <<"/">> ELSE rawPath
      queryEnd == FirstIn(s, pathEnd, {"#"})
      rawQuery == SubSeq(s, pathEnd, queryEnd - 1)
      search == IF Len(rawQuery) <= 1 THEN <<>> ELSE rawQuery
      host == IF port = <<>> THEN hostname ELSE hostname \o <<":">> \o port
  IN IF colon > Len(s) \/ scheme \notin {T_http, T_https} \/ hostname = <<>>
       THEN [ok |-> FALSE, error |-> "TypeError"]
       ELSE [ok |-> TRUE, protocol |-> scheme \o <<":">>, host |-> host,
             pathname |-> pathname, search |-> search,
             href |-> scheme \o <<":", "/", "/">> \o host \o pathname \o rawQuery]

----------------------------------------------------------------------------
(* assembleRequestUrl *)

\* a loop that builds the query from the last id to the first
RECURSIVE AppendTaskIds_reversed(_, _)
AppendTaskIds_reversed(tempUrlStr, taskIds) ==
  IF taskIds = <<>> THEN tempUrlStr
  ELSE AppendTaskIds_reversed(tempUrlStr, Tail(taskIds))
         \o T_taskIdEq \o ToText(Head(taskIds)) \o T_amp

\* buildParms.taskIds.forEach: tempUrlStr with `taskId=${id}&` appended per id
RECURSIVE AppendTaskIds(_, _)
AppendTaskIds(tempUrlStr, taskIds) ==
  IF taskIds = <<>> THEN tempUrlStr
  ELSE AppendTaskIds(tempUrlStr \o T_taskIdEq \o ToText(Head(taskIds)) \o T_amp,
                     Tail(taskIds))

\* the base URL as it is after the three removals of lines 92-109
StripCesUrl(cesUrl) ==
  LET cpwrIndex == lastIndexOf(toLowerCase(cesUrl), T_compuware)
      url1 == IF cpwrIndex > 0 THEN substr0(cesUrl, cpwrIndex) ELSE cesUrl
      ispwIndex == lastIndexOf(toLowerCase(url1), T_ispw)
      url2 == IF ispwIndex > 0 THEN substr0(url1, ispwIndex) ELSE url1
  IN IF endsWith(url2, T_slash) THEN substr0(url2, Len(url2) - 1) ELSE url2

\* the text handed to new URL
RequestUrlText(cesUrl, srid, buildParms) ==
  LET t1 == StripCesUrl(cesUrl) \o T_ispwSlash \o srid \o T_assignments
      t2 == t1 \o ToText(Get(buildParms, K_containerId))
      t3 == t2 \o T_generateAwait
      t4 == AppendTaskIds(t3, Get(buildParms, K_taskIds).v)
  IN t4 \o T_levelEq \o ToText(Get(buildParms, K_taskLevel))

assembleRequestUrl(cesUrl, srid, buildParms) ==
  URLParse(RequestUrlText(cesUrl, srid, buildParms))

----------------------------------------------------------------------------
(* assembleRequestBodyObject *)

\* a body whose autoDeploy is the truthiness of the input
assembleRequestBodyObject_truthy(runtimeConfig, changeType, executionStatus, autoDeploy) ==
  LET b0 == Obj(<<>>)
      b1 == IF stringHasContent(runtimeConfig)
              THEN Set(b0, K_runtimeConfig, runtimeConfig) ELSE b0
      b2 == IF stringHasContent(changeType)
              THEN Set(b1, K_changeType, changeType) ELSE b1
      b3 == IF stringHasContent(executionStatus)
              THEN Set(b2, K_execStat, executionStatus) ELSE b2
  IN Set(b3, K_autoDeploy, Bool(Truthy(autoDeploy)))

assembleRequestBodyObject(runtimeConfig, changeType, executionStatus, autoDeploy) ==
  LET b0 == Obj(<<>>)
      b1 == IF stringHasContent(runtimeConfig)
              THEN Set(b0, K_runtimeConfig, runtimeConfig) ELSE b0
      b2 == IF stringHasContent(changeType)
              THEN Set(b1, K_changeType, changeType) ELSE b1
      b3 == IF stringHasContent(executionStatus)
              THEN Set(b2, K_execStat, executionStatus) ELSE b2
  IN Set(b3, K_autoDeploy, Bool(autoDeploy = Str(T_true)))

----------------------------------------------------------------------------
(* JSON.stringify, for values with integer numbers *)

\* a quoted string with quote, backslash and newline written as they are
QuoteText_raw(t) == <<"\"">> \o t \o <<"\"">>

RECURSIVE EscapeText(_)
EscapeText(t) ==
  IF t = <<>> THEN <<>>
  ELSE (CASE Head(t) = "\"" -> <<"\\", "\"">>
          [] Head(t) = "\\" -> <<"\\", "\\">>
          [] Head(t) = "\n" -> <<"\\", "n">>
          [] OTHER -> <<Head(t)>>) \o EscapeText(Tail(t))

\* Quote: the text in double quotes, with ", \ and newline escaped
QuoteText(t) == <<"\"">> \o EscapeText(t) \o <<"\"">>

IntText(n) == IF n < 0 THEN <<"-">> \o NumText(-n) ELSE NumText(n)

RECURSIVE Stringify(_), StringifyElements(_), StringifyMembers(_, _)
\* SerializeJSONProperty of a value that is not undefined
Stringify(x) ==
  CASE x.t = "null" -> T_null
    [] x.t = "boolean" -> IF x.v THEN T_true ELSE T_false
    [] x.t = "number" -> IntText(x.v)
    [] x.t = "string" -> QuoteText(x.v)
    [] x.t = "array" -> <<"[">> \o StringifyElements(x.v) \o <<"]">>
    [] x.t = "object" -> <<"{">> \o StringifyMembers(x.v, TRUE) \o <<"}">>

\* the elements of an array, an undefined one as null
StringifyElements(a) ==
  IF a = <<>> THEN <<>>
  ELSE (IF Head(a) = Undefined THEN T_null ELSE Stringify(Head(a)))
         \o (IF Len(a) > 1 THEN <<",">> ELSE <<>>) \o StringifyElements(Tail(a))

\* the properties of an object, one whose value is undefined left out
StringifyMembers(e, first) ==
  IF e = <<>> THEN <<>>
  ELSE IF Head(e).v = Undefined THEN StringifyMembers(Tail(e), first)
  ELSE (IF first THEN <<>> ELSE <<",">>)
         \o QuoteText(Head(e).k) \o <<":">> \o Stringify(Head(e).v)
         \o StringifyMembers(Tail(e), FALSE)

\* JSON.stringify: undefined for undefined, else the JSON text as a string
JSONStringify(x) == IF x = Undefined THEN Undefined ELSE Str(Stringify(x))

----------------------------------------------------------------------------
(* JSON.parse, for texts with integer numbers and the escapes \" \\ \/ \n *)

JsonWhitespace == {" ", "\n", "\t", "\r"}
DigitChars == {T_digits[i] : i \in 1..Len(T_digits)}
SkipWs(s, i) == FirstNotIn(s, i, JsonWhitespace)
ParseFail == [ok |-> FALSE]

RECURSIVE DigitsValue(_)
DigitsValue(d) ==
  IF d = <<>> THEN 0
  ELSE 10 * DigitsValue(SubSeq(d, 1, Len(d) - 1))
         + (CHOOSE n \in 0..9 : T_digits[n + 1] = d[Len(d)])

\* the string whose opening quote is at i - 1: acc is the text read so far
RECURSIVE ScanString(_, _, _)
ScanString(s, i, acc) ==
  IF i > Len(s) THEN ParseFail
  ELSE IF s[i] = "\"" THEN [ok |-> TRUE, val |-> acc, next |-> i + 1]
  ELSE IF s[i] = "\\" THEN
    IF i + 1 > Len(s) THEN ParseFail
    ELSE IF s[i + 1] \in {"\"", "\\", "/"}
      THEN ScanString(s, i + 2, Append(acc, s[i + 1]))
    ELSE IF s[i + 1] = "n" THEN ScanString(s, i + 2, Append(acc, "\n"))
    ELSE ParseFail
  ELSE IF s[i] \in {"\n", "\t", "\r"} THEN ParseFail
  ELSE ScanString(s, i + 1, Append(acc, s[i]))

ParseNumber(s, i) ==
  LET start == IF s[i] = "-" THEN i + 1 ELSE i
      end == FirstNotIn(s, start, DigitChars)
      digits == SubSeq(s, start, end - 1)
  IN IF digits = <<>> \/ (Len(digits) > 1 /\ digits[1] = "0") THEN ParseFail
     ELSE [ok |-> TRUE, next |-> end,
           val |-> Num(IF s[i] = "-" THEN -DigitsValue(digits) ELSE DigitsValue(digits))]

ParseLiteral(s, i, text, val) ==
  IF i + Len(text) - 1 <= Len(s) /\ SubSeq(s, i, i + Len(text) - 1) = text
    THEN [ok |-> TRUE, val |-> val, next |-> i + Len(text)]
    ELSE ParseFail

RECURSIVE ParseValue(_, _), ParseElements(_, _, _), ParseMembers(_, _, _)
\* the value that starts at or after i: [ok, val, next]
ParseValue(s, i0) ==
  LET i == SkipWs(s, i0)
  IN IF i > Len(s) THEN ParseFail
     ELSE CASE s[i] = "{" ->
                 LET j == SkipWs(s, i + 1)
                 IN IF j <= Len(s) /\ s[j] = "}"
                      THEN [ok |-> TRUE, val |-> Obj(<<>>), next |-> j + 1]
                      ELSE ParseMembers(s, j, Obj(<<>>))
            [] s[i] = "[" ->
                 LET j == SkipWs(s, i + 1)
                 IN IF j <= Len(s) /\ s[j] = "]"
                      THEN [ok |-> TRUE, val |-> Arr(<<>>), next |-> j + 1]
                      ELSE ParseElements(s, j, <<>>)
            [] s[i] = "\"" ->
                 LET r == ScanString(s, i + 1, <<>>)
                 IN IF r.ok THEN [ok |-> TRUE, val |-> Str(r.val), next |-> r.next]
                    ELSE ParseFail
            [] s[i] = "t" -> ParseLiteral(s, i, T_true, Bool(TRUE))
            [] s[i] = "f" -> ParseLiteral(s, i, T_false, Bool(FALSE))
            [] s[i] = "n" -> ParseLiteral(s, i, T_null, Null)
            [] s[i] = "-" \/ s[i] \in DigitChars -> ParseNumber(s, i)
            [] OTHER -> ParseFail

\* the elements of an array from i on, after the elements acc
ParseElements(s, i, acc) ==
  LET r == ParseValue(s, i)
      j == SkipWs(s, r.next)
  IN IF ~r.ok THEN ParseFail
     ELSE IF j > Len(s) THEN ParseFail
     ELSE IF s[j] = "," THEN ParseElements(s, j + 1, Append(acc, r.val))
     ELSE IF s[j] = "]"
       THEN [ok |-> TRUE, val |-> Arr(Append(acc, r.val)), next |-> j + 1]
     ELSE ParseFail

\* the members of an object from i on, added to obj
ParseMembers(s, i0, obj) ==
  LET i == SkipWs(s, i0)
      key == IF i <= Len(s) /\ s[i] = "\"" THEN ScanString(s, i + 1, <<>>)
             ELSE ParseFail
      c == IF key.ok THEN SkipWs(s, key.next) ELSE Len(s) + 1
      r == IF c <= Len(s) /\ s[c] = ":" THEN ParseValue(s, c + 1) ELSE ParseFail
      j == IF r.ok THEN SkipWs(s, r.next) ELSE Len(s) + 1
  IN IF j > Len(s) THEN ParseFail
     ELSE IF s[j] = "," THEN ParseMembers(s, j + 1, Set(obj, key.val, r.val))
     ELSE IF s[j] = "}"
       THEN [ok |-> TRUE, val |-> Set(obj, key.val, r.val), next |-> j + 1]
     ELSE ParseFail

\* JSON.parse: [ok |-> TRUE, val] or, for a text that is not JSON, a SyntaxError
JSONParse(s) ==
  LET r == ParseValue(s, 1)
  IN IF r.ok /\ SkipWs(s, r.next) > Len(s)
       THEN [ok |-> TRUE, val |-> r.val]
       ELSE [ok |-> FALSE, error |-> "SyntaxError"]

----------------------------------------------------------------------------
(* parseStringAsJson, convertObjectToJson *)

parseStringAsJson(jsonString) ==
  IF stringHasContent(jsonString) THEN JSONParse(jsonString.v)
  ELSE [ok |-> TRUE, val |-> Undefined]

convertObjectToJson(data) ==
  IF data # Null /\ data # Undefined THEN JSONStringify(data) ELSE Str(<<>>)

----------------------------------------------------------------------------
(* getHttpPromise: the promise and the handlers of the request's events *)

Pending == [state |-> "pending"]
NoPromise == [state |-> "none"]

\* resolve(value) and reject(error): only a pending promise is settled
resolve(p, value) ==
  IF p = Pending THEN [state |-> "fulfilled", value |-> value] ELSE p
reject(p, error) ==
  IF p = Pending THEN [state |-> "rejected", error |-> error] ELSE p

\* the options of http.request
RequestOptions(requestUrl, token, requestBody) ==
  [hostname |-> requestUrl.hostname, port |-> requestUrl.port,
   path |-> requestUrl.pathname \o requestUrl.search, method |-> "POST",
   headers |-> [contentType |-> "application/json",
                contentLength |-> Len(requestBody.v),
                authorization |-> token]]

\* the promise after the 'end' handler: JSON.parse(data) either throws, out of
\* the handler and past the promise, or gives the value the promise is
\* resolved with
OnEndPromise(p, text) ==
  IF JSONParse(text).ok THEN resolve(p, JSONParse(text).val) ELSE p

----------------------------------------------------------------------------
(* handleResponseBody, getStatusMessageToPrint, GenerateFailureException *)

\* a join that puts the newline between the lines and not after the last
RECURSIVE JoinLines_separated(_, _)
JoinLines_separated(message, statusMsg) ==
  IF statusMsg = <<>> THEN message
  ELSE JoinLines_separated(
         message \o ToText(Head(statusMsg)) \o (IF Len(statusMsg) > 1 THEN T_nl ELSE <<>>),
         Tail(statusMsg))

RECURSIVE JoinLines(_, _)
\* statusMsg.forEach((line) => message = message + `${line}\n`)
JoinLines(message, statusMsg) ==
  IF statusMsg = <<>> THEN message
  ELSE JoinLines(message \o ToText(Head(statusMsg)) \o T_nl, Tail(statusMsg))

getStatusMessageToPrint(statusMsg) ==
  IF statusMsg.t = "string" THEN statusMsg.v
  ELSE IF statusMsg.t = "array" THEN JoinLines(<<>>, statusMsg.v)
  ELSE <<>>

GenerateFailureException(message) ==
  [outcome |-> "throw", name |-> "GenerateFailureException", message |-> message]

\* reading a property of undefined or null
TypeError == [outcome |-> "throw", name |-> "TypeError", message |-> ""]

\* returns [result, console]: the return or throw, and the lines written
handleResponseBody(responseBody) ==
  IF responseBody = Undefined
    THEN [result |-> GenerateFailureException(M_noResponse), console |-> <<>>]
  ELSE IF ThrowsOnRead(responseBody)
    THEN [result |-> TypeError, console |-> <<>>]
  ELSE IF Get(responseBody, K_awaitStatus) = Undefined
    THEN [result |-> GenerateFailureException(M_notComplete),
          console |-> IF Truthy(Get(responseBody, K_message))
                        THEN <<[level |-> "log",
                                text |-> ToText(Get(responseBody, K_message))]>>
                        ELSE <<>>]
  ELSE IF ThrowsOnRead(Get(responseBody, K_awaitStatus))
    THEN [result |-> TypeError, console |-> <<>>]
  ELSE LET awaitStatus == Get(responseBody, K_awaitStatus)
           line == getStatusMessageToPrint(Get(awaitStatus, K_statusMsg))
       IN IF Get(awaitStatus, K_generateFailedCount) # Num(0)
            THEN [result |-> GenerateFailureException(M_failures),
                  console |-> <<[level |-> "error", text |-> line]>>]
            ELSE [result |-> [outcome |-> "return", value |-> responseBody],
                  console |-> <<[level |-> "log", text |-> line]>>]

----------------------------------------------------------------------------
(* Inputs of the model *)

Absent == [t |-> "absent"]
\* an object literal; a property whose value is Absent is left out
MkObj(pairs) == Obj(SelectSeq(pairs, LAMBDA p : p.v # Absent))

Tx == <<"x">>
FieldValues == {Absent, Null, Str(<<>>), Str(Tx)}
TaskIdsValues == {Absent, Arr(<<>>), Arr(<<Str(Tx)>>), Str(<<>>)}
BuildParmsInputs ==
  {Undefined, Null} \cup
  { MkObj(<<[k |-> K_containerId, v |-> c], [k |-> K_releaseId, v |-> r],
            [k |-> K_taskLevel, v |-> l], [k |-> K_taskIds, v |-> t]>>) :
      c \in FieldValues, r \in FieldValues, l \in FieldValues, t \in TaskIdsValues }
AllFields == <<K_containerId, K_releaseId, K_taskLevel, K_taskIds>>
\* the lists of distinct required fields, in the order of AllFields
RequiredFieldsInputs ==
  { SelectSeq(AllFields, LAMBDA f : f \in S) : S \in SUBSET {AllFields[i] : i \in 1..4} }


U_compuware == <<"/", "C", "O", "M", "P", "U", "W", "A", "R", "E">>
M_compuware == <<"/", "C", "o", "m", "p", "u", "w", "a", "r", "e">>
U_ispw == <<"/", "I", "S", "P", "W">>
M_ispw == <<"/", "i", "S", "p", "W">>
H_ces == <<"h", "t", "t", "p", ":", "/", "/", "c", "e", "s">>
H_cesPort == <<"h", "t", "t", "p", "s", ":", "/", "/", "c", "e", "s", ":", "4", "8">>
H_ispwCes == <<"h", "t", "t", "p", ":", "/", "/", "i", "s", "p", "w", ".", "c", "e", "s">>
H_compuwareCes == <<"h", "t", "t", "p", ":", "/", "/", "c", "o", "m", "p", "u", "w", "a", "r", "e", ".", "c", "e", "s">>
B_app == <<"h", "t", "t", "p", ":", "/", "/", "c", "e", "s", "/", "a", "p", "p">>
B_ispwApp == <<"h", "t", "t", "p", ":", "/", "/", "c", "e", "s", "/", "i", "s", "p", "w", "/", "a", "p", "p">>
I_srid1 == <<"P", "1">>
I_srid2 == <<"s">>
I_container == <<"A", "1">>
I_task1 == <<"t", "1">>
I_task2 == <<"7", "E">>
I_level1 == <<"D", "E", "V">>
I_level2 == <<"q">>

\* a CES URL that is a scheme, a host name and maybe a port
Hosts == {H_ces, H_cesPort, H_ispwCes, H_compuwareCes}
\* the base URLs an operator may mean: a host, or a host and a leading path
Bases == Hosts \cup {B_app, B_ispwApp}
CompuwareForms == {T_compuware, U_compuware, M_compuware}
IspwForms == {T_ispw, U_ispw, M_ispw}
\* what an operator may have left at the end of the base URL
Suffixes ==
  {<<>>} \cup CompuwareForms \cup IspwForms
         \cup {c \o i : c \in CompuwareForms, i \in IspwForms}
Srids == {I_srid1, I_srid2}
TaskIdLists == UNION {[1..n -> {Str(I_task1), Str(I_task2)}] : n \in 0..MaxTaskIds}
UrlBuildParms ==
  { Obj(<<[k |-> K_containerId, v |-> Str(I_container)],
          [k |-> K_releaseId, v |-> Str(Tx)],
          [k |-> K_taskLevel, v |-> Str(l)],
          [k |-> K_taskIds, v |-> Arr(ids)]>>) :
      l \in {I_level1, I_level2}, ids \in TaskIdLists }

Tc == <<"c">>
Tt == <<"t">>
Ts == <<"s">>
T_True == <<"T", "r", "u", "e">>
T_ok == <<"o", "k">>
T_quoted == <<"a", "\"", "\\", "b">>
T_twoLines == <<"a", "\n", "b">>
T_truncated == <<"{", "\"", "a">>
T_html == <<"<", "h", "t", "m", "l", ">">>
T_spaced == <<" ", "[", "1", " ", ",", " ", "t", "r", "u", "e", "]", "\n">>

\* the inputs of assembleRequestBodyObject: what core.getInput may give, or nothing
BodyField(t) == {Undefined, Null, Str(<<>>), Str(t)}
AutoDeployInputs == {Undefined, Str(<<>>), Str(T_true), Str(T_True), Str(T_false)}

\* the response bodies a CES may answer with, and the absent one
StatusMsgValues ==
  {Absent, Str(T_ok), Arr(<<Str(<<"a">>), Str(<<"b">>)>>), Arr(<<>>), Num(5)}
CountValues == {Absent, Num(0), Num(2), Str(<<"0">>), Null}
AwaitStatusValues ==
  {Absent, Null} \cup
  { MkObj(<<[k |-> K_generateFailedCount, v |-> c], [k |-> K_statusMsg, v |-> m]>>) :
      c \in CountValues, m \in StatusMsgValues }
MessageValues == {Absent, Null, Str(<<>>), Str(Tx)}
JsonResponseBodies ==
  {Null, Num(5), Str(Tx)} \cup
  { MkObj(<<[k |-> K_awaitStatus, v |-> a], [k |-> K_message, v |-> m]>>) :
      a \in AwaitStatusValues, m \in MessageValues }
ResponseBodies == {Undefined} \cup JsonResponseBodies

\* JSON-serializable values: primitives, arrays of them, nested ones, bodies
JsonPrimitives ==
  {Null, Bool(TRUE), Bool(FALSE), Num(0), Num(7), Num(12), Num(-3),
   Str(<<>>), Str(T_ok), Str(T_quoted), Str(T_twoLines)}
JsonArrays == {Arr(a) : a \in UNION {[1..n -> JsonPrimitives] : n \in 0..MaxArrayLen}}
JsonNested ==
  {Arr(<<Arr(<<Num(7)>>), Obj(<<[k |-> T_quoted, v |-> Arr(<<>>)]>>)>>),
   Obj(<<[k |-> Tx, v |-> Obj(<<[k |-> Tx, v |-> Str(T_quoted)]>>)],
         [k |-> T_ok, v |-> Arr(<<Null, Obj(<<>>)>>)]>>)}
JsonValues == JsonPrimitives \cup JsonArrays \cup JsonNested \cup JsonResponseBodies
\* what convertObjectToJson is given: a JSON value, or nothing
ConvertInputs == {Undefined} \cup JsonValues
\* what parseStringAsJson is given when it reads an input of the action
ParseInputs ==
  {Undefined, Null, Str(<<>>), Str(T_truncated), Str(T_html), Str(T_spaced),
   Str(T_null), Str(<<"0", "1">>)}

T_token == <<"t", "o", "k">>
\* the request: a URL the assembler gives, a token and a converted body
RequestUrls ==
  {[hostname |-> <<"c", "e", "s">>, port |-> <<"4", "8">>,
    pathname |-> T_ispwSlash \o I_srid1, search |-> <<"?">> \o T_levelEq \o I_level1]}
RequestBodies ==
  {Str(<<>>), convertObjectToJson(assembleRequestBodyObject(Undefined, Undefined, Undefined, Str(T_true)))}
\* the texts a server may answer with: a success, failures, a message, null,
\* nothing, a text cut short, a page that is no JSON
WireBodies ==
  {MkObj(<<[k |-> K_awaitStatus, v |-> MkObj(<<[k |-> K_generateFailedCount, v |-> Num(0)],
                                               [k |-> K_statusMsg, v |-> Str(T_ok)]>>)]>>),
   MkObj(<<[k |-> K_awaitStatus, v |-> MkObj(<<[k |-> K_generateFailedCount, v |-> Num(2)],
                                               [k |-> K_statusMsg, v |-> Arr(<<Str(Tx)>>)]>>)]>>),
   MkObj(<<[k |-> K_message, v |-> Str(Tx)]>>),
   Null}
WireTexts == {Stringify(b) : b \in WireBodies} \cup {<<>>, T_truncated, T_html, T_spaced}

----------------------------------------------------------------------------
VARIABLES
  call,      \* the call of the invocation: the function, its arguments, its result
  console,   \* the lines written with console.log and console.error
  promise,   \* the promise getHttpPromise returned
  data,      \* the text the response's 'data' handler has collected
  wire,      \* the rest of the response's text, which the transport is to deliver
  phase,     \* where the request is: idle, sent, receiving, ended, errored
  uncaught   \* the error a handler threw, which nothing catches
vars == <<call, console, promise, data, wire, phase, uncaught>>
http == <<promise, data, wire, phase, uncaught>>

Init ==
  /\ call = [fn |-> "none"]
  /\ console = <<>>
  /\ promise = NoPromise
  /\ data = <<>>
  /\ wire = <<>>
  /\ phase = "idle"
  /\ uncaught = "none"

\* no call is in progress: the caller may make one
Idle == call.fn = "none"

ValidateBuildParms ==
  \E buildParms \in BuildParmsInputs, requiredFields \in RequiredFieldsInputs :
    LET r == validateBuildParms(buildParms, requiredFields)
    IN /\ Idle
       /\ call' = [fn |-> "validateBuildParms", buildParms |-> buildParms,
                   requiredFields |-> requiredFields, ret |-> r.ret]
       /\ console' = r.console
       /\ UNCHANGED http

\* base and suffix are what the operator's cesUrl is made of
AssembleRequestUrl ==
  \E base \in Bases, suffix \in Suffixes, slash \in {<<>>, T_slash},
     srid \in Srids, buildParms \in UrlBuildParms :
    LET cesUrl == base \o suffix \o slash
    IN /\ Idle
       /\ call' = [fn |-> "assembleRequestUrl", base |-> base, cesUrl |-> cesUrl,
                   srid |-> srid, buildParms |-> buildParms,
                   ret |-> assembleRequestUrl(cesUrl, srid, buildParms)]
       /\ console' = <<>>
       /\ UNCHANGED http

AssembleRequestBodyObject ==
  \E runtimeConfig \in BodyField(Tc), changeType \in BodyField(Tt),
     executionStatus \in BodyField(Ts), autoDeploy \in AutoDeployInputs :
    /\ Idle
    /\ call' = [fn |-> "assembleRequestBodyObject", runtimeConfig |-> runtimeConfig,
                changeType |-> changeType, executionStatus |-> executionStatus,
                autoDeploy |-> autoDeploy,
                ret |-> assembleRequestBodyObject(runtimeConfig, changeType,
                                                  executionStatus, autoDeploy)]
    /\ console' = <<>>
    /\ UNCHANGED http

ConvertObjectToJson ==
  \E obj \in ConvertInputs :
    /\ Idle
    /\ call' = [fn |-> "convertObjectToJson", data |-> obj,
                ret |-> convertObjectToJson(obj)]
    /\ console' = <<>>
    /\ UNCHANGED http

\* parseStringAsJson on an input of the action
ParseStringAsJson ==
  \E jsonString \in ParseInputs :
    /\ Idle
    /\ call' = [fn |-> "parseStringAsJson", jsonString |-> jsonString,
                ret |-> parseStringAsJson(jsonString)]
    /\ console' = <<>>
    /\ UNCHANGED http

\* parseStringAsJson(convertObjectToJson(data)): the text just converted is parsed
ParseConverted ==
  /\ call.fn = "convertObjectToJson"
  /\ call' = [fn |-> "parseConverted", data |-> call.data, jsonString |-> call.ret,
              ret |-> parseStringAsJson(call.ret)]
  /\ console' = <<>>
  /\ UNCHANGED http

Running == [outcome |-> "running"]

\* handleResponseBody up to its throw or return: the line, if any, is written
HandleResponseBody ==
  \E responseBody \in ResponseBodies :
    /\ Idle
    /\ call' = [fn |-> "handleResponseBody", responseBody |-> responseBody,
                result |-> Running]
    /\ console' = handleResponseBody(responseBody).console
    /\ UNCHANGED http

\* the throw or return of handleResponseBody
HandleResponseBodyOutcome ==
  /\ call.fn = "handleResponseBody"
  /\ call.result = Running
  /\ call' = [call EXCEPT !.result = handleResponseBody(call.responseBody).result]
  /\ UNCHANGED <<console, http>>

\* getHttpPromise: the request is written and ended, the promise is returned.
\* text is what the server is going to answer, if the transport delivers it.
GetHttpPromise ==
  \E requestUrl \in RequestUrls, requestBody \in RequestBodies, text \in WireTexts :
    /\ Idle
    /\ call' = [fn |-> "getHttpPromise",
                options |-> RequestOptions(requestUrl, T_token, requestBody),
                written |-> requestBody.v]
    /\ promise' = Pending
    /\ data' = <<>>
    /\ wire' = text
    /\ phase' = "sent"
    /\ UNCHANGED <<console, uncaught>>

\* req.on('error'): the request fails before a response arrives
OnRequestError ==
  /\ phase = "sent"
  /\ promise' = reject(promise, "Error")
  /\ phase' = "errored"
  /\ UNCHANGED <<call, console, data, wire, uncaught>>

\* the callback of http.request: a response arrives, data = ''
OnResponse ==
  /\ phase = "sent"
  /\ data' = <<>>
  /\ phase' = "receiving"
  /\ UNCHANGED <<call, console, promise, wire, uncaught>>

\* response.on('data'): data += chunk
OnData ==
  \E n \in 1..MaxChunk :
    /\ phase = "receiving"
    /\ n <= Len(wire)
    /\ data' = data \o SubSeq(wire, 1, n)
    /\ wire' = SubSeq(wire, n + 1, Len(wire))
    /\ UNCHANGED <<call, console, promise, phase, uncaught>>

\* response.on('end'): data = JSON.parse(data); resolve(data)
OnEnd ==
  /\ phase = "receiving"
  /\ wire = <<>>
  /\ promise' = OnEndPromise(promise, data)
  /\ uncaught' = IF JSONParse(data).ok THEN uncaught ELSE JSONParse(data).error
  /\ phase' = "ended"
  /\ UNCHANGED <<call, console, data, wire>>

\* response.on('error'): the connection fails while the response is read
OnResponseError ==
  /\ phase = "receiving"
  /\ promise' = reject(promise, "Error")
  /\ phase' = "errored"
  /\ UNCHANGED <<call, console, data, wire, uncaught>>

\* the invocation is over: nothing is kept from one invocation to the next
Return ==
  /\ ~Idle
  /\ call.fn = "handleResponseBody" => call.result # Running
  /\ call.fn = "getHttpPromise" => phase \in {"ended", "errored"}
  /\ call' = [fn |-> "none"]
  /\ console' = <<>>
  /\ promise' = NoPromise
  /\ data' = <<>>
  /\ wire' = <<>>
  /\ phase' = "idle"
  /\ uncaught' = "none"

Next ==
  \/ ValidateBuildParms
  \/ AssembleRequestUrl
  \/ AssembleRequestBodyObject
  \/ ConvertObjectToJson
  \/ ParseStringAsJson
  \/ ParseConverted
  \/ HandleResponseBody
  \/ HandleResponseBodyOutcome
  \/ GetHttpPromise
  \/ OnRequestError
  \/ OnResponse
  \/ OnData
  \/ OnEnd
  \/ OnResponseError
  \/ Return

Spec == Init /\ [][Next]_vars

----------------------------------------------------------------------------
(* Claims *)

D_containerId == <<"M", "i", "s", "s", "i", "n", "g", " ", "i", "n", "p", "u", "t", ":", " ", "a", "n", " ", "a", "s", "s", "i", "g", "n", "m", "e", "n", "t", " ", "I", "D", " ", "m", "u", "s", "t", " ", "b", "e", " ", "s", "p", "e", "c", "i", "f", "i", "e", "d", ".">>
D_releaseId == <<"M", "i", "s", "s", "i", "n", "g", " ", "i", "n", "p", "u", "t", ":", " ", "a", " ", "r", "e", "l", "e", "a", "s", "e", " ", "I", "D", " ", "m", "u", "s", "t", " ", "b", "e", " ", "s", "p", "e", "c", "i", "f", "i", "e", "d", ".">>
D_taskLevel == <<"M", "i", "s", "s", "i", "n", "g", " ", "i", "n", "p", "u", "t", ":", " ", "a", " ", "l", "e", "v", "e", "l", " ", "m", "u", "s", "t", " ", "b", "e", " ", "s", "p", "e", "c", "i", "f", "i", "e", "d", ".">>
D_taskIds == <<"M", "i", "s", "s", "i", "n", "g", " ", "i", "n", "p", "u", "t", ":", " ", "a", " ", "l", "i", "s", "t", " ", "o", "f", " ", "t", "a", "s", "k", " ", "I", "D", "s", " ", "m", "u", "s", "t", " ", "b", "e", " ", "s", "p", "e", "c", "i", "f", "i", "e", "d", ".">>

\* the diagnostic that names a field in the user's terms
DiagnosticOf(f) ==
  CASE f = K_containerId -> D_containerId
    [] f = K_releaseId -> D_releaseId
    [] f = K_taskLevel -> D_taskLevel
    [] f = K_taskIds -> D_taskIds

\* the object bp has a property f whose value is neither null nor of length 0
FieldFilled(bp, f) ==
  \E i \in 1..Len(bp.v) :
    /\ bp.v[i].k = f
    /\ bp.v[i].v.t # "null"
    /\ bp.v[i].v.v # <<>>

\* C5: validateBuildParms returns true iff buildParms is neither null nor
\* undefined and every required field has a non-empty value; for a buildParms
\* that is present it writes one diagnostic per required field that is empty
\* or missing, naming that field, for all the failing fields in one pass (as
\* many diagnostics as failing fields, in the order of requiredFields).
C5_ValidateReportsEveryMissingField ==
  call.fn = "validateBuildParms" =>
    LET bp == call.buildParms
        req == call.requiredFields
        present == bp.t = "object"
        failing == SelectSeq(req, LAMBDA f : ~FieldFilled(bp, f))
    IN /\ call.ret = (present /\ failing = <<>>)
       /\ present =>
            /\ Len(console) = Len(failing)
            /\ \A i \in 1..Len(failing) :
                 console[i] = [level |-> "error", text |-> DiagnosticOf(failing[i])]

\* all four required fields are missing and four diagnostics were written
C5_Witness ==
  /\ call.fn = "validateBuildParms"
  /\ call.buildParms = Obj(<<>>)
  /\ Len(call.requiredFields) = 4
  /\ Len(console) = 4
  /\ call.ret = FALSE
StartsWith(s, prefix) ==
  Len(s) >= Len(prefix) /\ SubSeq(s, 1, Len(prefix)) = prefix

\* <base>/ispw/<srid>/assignments/<containerId>/taskIds/generate-await?
ExpectedPrefix(base, srid, buildParms) ==
  base \o T_ispwSlash \o srid \o T_assignments
       \o Get(buildParms, K_containerId).v \o T_generateAwait

\* C1: for every host, srid and BuildParms, every base-URL variant of the host
\* (the bare host, or the host followed by /compuware, /ispw or
\* /compuware/ispw in any letter case, with or without a trailing slash) gives
\* the URL the bare host gives, and that URL starts with
\* {host}/ispw/{srid}/assignments/{containerId}/taskIds/generate-await?
C1_VariantsGiveHostUrl ==
  (call.fn = "assembleRequestUrl" /\ call.base \in Hosts) =>
    /\ call.ret.ok
    /\ call.ret = assembleRequestUrl(call.base, call.srid, call.buildParms)
    /\ StartsWith(call.ret.href,
                  ExpectedPrefix(call.base, call.srid, call.buildParms))

\* the entries of a query, which "&" separates
RECURSIVE SplitAmp(_)
SplitAmp(q) ==
  IF \E i \in 1..Len(q) : q[i] = "&"
    THEN LET i == Min({j \in 1..Len(q) : q[j] = "&"})
         IN <<SubSeq(q, 1, i - 1)>> \o SplitAmp(SubSeq(q, i + 1, Len(q)))
    ELSE <<q>>

\* C6: for a taskIds list of length at least 1, the query of the assembled URL
\* is one taskId=<id> entry per id, in the order of taskIds, each followed by
\* "&", and then level=<taskLevel> as the one last entry.
C6_QueryListsTaskIdsInOrder ==
  (call.fn = "assembleRequestUrl" /\ Len(Get(call.buildParms, K_taskIds).v) >= 1) =>
    LET ids == Get(call.buildParms, K_taskIds).v
        n == Len(ids)
        search == call.ret.search
        entries == SplitAmp(SubSeq(search, 2, Len(search)))
    IN /\ call.ret.ok
       /\ Len(search) >= 1 /\ search[1] = "?"
       /\ Len(entries) = n + 1
       /\ \A i \in 1..n : entries[i] = T_taskIdEq \o ids[i].v
       /\ entries[n + 1] = T_levelEq \o Get(call.buildParms, K_taskLevel).v

\* a URL was assembled for two different task ids
C6_Witness ==
  /\ call.fn = "assembleRequestUrl"
  /\ Get(call.buildParms, K_taskIds).v = <<Str(I_task1), Str(I_task2)>>
  /\ call.ret.ok
  /\ Len(call.ret.search) > Len(T_levelEq)

\* C7: whatever base URL is supplied, with or without a trailing /compuware
\* or /ispw suffix and a trailing slash, the assembled URL is
\* <base>/ispw/<srid>/assignments/<containerId>/taskIds/generate-await?...,
\* with the scheme, host, port and leading path of the base kept.
C7_OnlyTrailingSuffixRemoved ==
  call.fn = "assembleRequestUrl" =>
    /\ call.ret.ok
    /\ StartsWith(call.ret.href,
                  ExpectedPrefix(call.base, call.srid, call.buildParms))
HasKey(o, key) == \E i \in 1..Len(o.v) : o.v[i].k = key
NonEmptyString(x) == x.t = "string" /\ Len(x.v) >= 1

\* C8: the object assembleRequestBodyObject returns has the key runtimeConfig,
\* changeType or execStat iff the input runtimeConfig, changeType or
\* executionStatus is a non-empty string, with the input's value; autoDeploy is
\* always there, true iff the input is exactly the string 'true'; it has no
\* other key.
C8_BodyHasKeysOfNonEmptyInputs ==
  call.fn = "assembleRequestBodyObject" =>
    LET o == call.ret
        KeyFollows(key, input) ==
          /\ HasKey(o, key) <=> NonEmptyString(input)
          /\ HasKey(o, key) => Get(o, key) = input
    IN /\ o.t = "object"
       /\ KeyFollows(K_runtimeConfig, call.runtimeConfig)
       /\ KeyFollows(K_changeType, call.changeType)
       /\ KeyFollows(K_execStat, call.executionStatus)
       /\ HasKey(o, K_autoDeploy)
       /\ Get(o, K_autoDeploy) =
            Bool(call.autoDeploy.t = "string" /\ call.autoDeploy.v = <<"t", "r", "u", "e">>)
       /\ \A i \in 1..Len(o.v) :
            /\ o.v[i].k \in {K_runtimeConfig, K_changeType, K_execStat, K_autoDeploy}
            /\ \A j \in 1..Len(o.v) : o.v[j].k = o.v[i].k => j = i

\* assembleRequestBodyObject('c', '', undefined, 'true') gave two keys
C8_Witness ==
  /\ call.fn = "assembleRequestBodyObject"
  /\ call.runtimeConfig = Str(Tc)
  /\ call.changeType = Str(<<>>)
  /\ call.executionStatus = Undefined
  /\ call.autoDeploy = Str(T_true)
  /\ Len(call.ret.v) = 2

\* C9 as stated: parseStringAsJson(convertObjectToJson(obj)) equals obj for
\* every JSON-serializable value obj, and for the absent one.
C9_RoundTripEveryValue ==
  call.fn = "parseConverted" => (call.ret.ok /\ call.ret.val = call.data)

\* C9 as amended: parseStringAsJson(convertObjectToJson(obj)) equals obj for
\* every JSON-serializable value obj but null, and for the absent one; null is
\* converted to the empty string and comes back as the absent marker.
C9_RoundTripButNull ==
  call.fn = "parseConverted" =>
    /\ call.ret.ok
    /\ call.data # Null => call.ret.val = call.data
    /\ call.data = Null => (call.jsonString = Str(<<>>) /\ call.ret.val = Undefined)

\* a nested object with a quote in a key and in a value went there and back
C9_Witness ==
  /\ call.fn = "parseConverted"
  /\ call.data \in JsonNested
  /\ call.data.t = "object"
  /\ Len(call.jsonString.v) > Len(T_quoted)
  /\ call.ret.ok
  /\ call.ret.val = call.data

\* the response body has an awaitStatus
AwaitStatusPresent(body) ==
  /\ body.t = "object"
  /\ \E i \in 1..Len(body.v) : body.v[i].k = K_awaitStatus /\ body.v[i].v # Undefined
\* ... whose generateFailedCount is exactly 0
CountIsZero(body) ==
  /\ AwaitStatusPresent(body)
  /\ LET a == Get(body, K_awaitStatus)
     IN a.t = "object" /\ \E i \in 1..Len(a.v) :
          a.v[i] = [k |-> K_generateFailedCount, v |-> Num(0)]

\* C2: handleResponseBody returns the response object it was given iff
\* awaitStatus is present and its generateFailedCount is exactly 0; in every
\* other case it throws a GenerateFailureException, with 'No response was
\* received from the generate request.' for an absent body, 'The generate did
\* not complete successfully.' for an absent awaitStatus, and 'There were
\* generate failures.' for a generateFailedCount that is not 0. Nothing else
\* is returned and no other error is thrown.
C2_ReturnsBodyOrGenerateFailure ==
  (call.fn = "handleResponseBody" /\ call.result # Running) =>
    LET body == call.responseBody
        r == call.result
    IN /\ r.outcome \in {"return", "throw"}
       /\ r.outcome = "return" <=> CountIsZero(body)
       /\ r.outcome = "return" => r.value = body
       /\ r.outcome = "throw" =>
            /\ r.name = "GenerateFailureException"
            /\ r.message =
                 (IF body = Undefined THEN M_noResponse
                  ELSE IF ~AwaitStatusPresent(body) THEN M_notComplete
                  ELSE M_failures)

\* what getStatusMessageToPrint is to give: a string as it is, each entry of a
\* sequence followed by a newline, nothing for anything else
RECURSIVE FormattedLines(_)
FormattedLines(a) ==
  IF a = <<>> THEN <<>> ELSE Head(a).v \o <<"\n">> \o FormattedLines(Tail(a))
Formatted(statusMsg) ==
  CASE statusMsg.t = "string" -> statusMsg.v
    [] statusMsg.t = "array" -> FormattedLines(statusMsg.v)
    [] OTHER -> <<>>

\* the cases of handleResponseBody that C10 names
BodyAbsent(body) == body = Undefined
AwaitStatusAbsent(body) ==
  body.t \notin {"undefined", "null"} /\ ~AwaitStatusPresent(body)
HasAwaitStatusObject(body) ==
  AwaitStatusPresent(body) /\ Get(body, K_awaitStatus).t = "object"
MessagePresent(body) == Get(body, K_message).t \notin {"undefined", "null"}
Thrown(message) ==
  [outcome |-> "throw", name |-> "GenerateFailureException", message |-> message]

\* the line and the outcome of the cases C10 and its amendment share: a count
\* that is not 0, a count of 0, an absent body; and at most one line ever.
\* The line is there while the call runs, before the outcome is.
C10_CountAndAbsentCases ==
  LET body == call.responseBody
      status == Formatted(Get(Get(body, K_awaitStatus), K_statusMsg))
  IN /\ (HasAwaitStatusObject(body) /\ ~CountIsZero(body)) =>
          /\ console = <<[level |-> "error", text |-> status]>>
          /\ call.result \in {Running, Thrown(M_failures)}
     /\ CountIsZero(body) =>
          /\ console = <<[level |-> "log", text |-> status]>>
          /\ call.result \in {Running, [outcome |-> "return", value |-> body]}
     /\ BodyAbsent(body) =>
          /\ console = <<>>
          /\ call.result \in {Running, Thrown(M_noResponse)}
     /\ Len(console) <= 1

\* C10 as stated: the line is written before the outcome; with awaitStatus
\* absent and message present, the message is one informational line and the
\* call fails; with a generateFailedCount that is not 0, the formatted status
\* message is one error-level line and the call fails; with a count of 0 it is
\* one informational line and the body is returned; with the body absent
\* nothing is logged; never more than one line.
C10_LineThenOutcome ==
  call.fn = "handleResponseBody" =>
    /\ C10_CountAndAbsentCases
    /\ (AwaitStatusAbsent(call.responseBody) /\ MessagePresent(call.responseBody)) =>
         /\ console = <<[level |-> "log", text |-> Get(call.responseBody, K_message).v]>>
         /\ call.result \in {Running, Thrown(M_notComplete)}

\* C10 as amended: as stated, but with awaitStatus absent the message is
\* written (as one informational line, before the failure) iff it is present
\* and not the empty string; an empty message writes no line.
C10_LineThenOutcomeNonEmptyMessage ==
  call.fn = "handleResponseBody" =>
    /\ C10_CountAndAbsentCases
    /\ AwaitStatusAbsent(call.responseBody) =>
         /\ call.result \in {Running, Thrown(M_notComplete)}
         /\ console =
              IF MessagePresent(call.responseBody)
                 /\ Get(call.responseBody, K_message).v # <<>>
                THEN <<[level |-> "log", text |-> Get(call.responseBody, K_message).v]>>
                ELSE <<>>

\* two status lines were written as one error-level line, and the call is
\* yet to fail
C10_Witness ==
  /\ call.fn = "handleResponseBody"
  /\ call.result = Running
  /\ console = <<[level |-> "error", text |-> <<"a", "\n", "b", "\n">>]>>
\* C3: whatever the order of the response's 'data', 'end' and 'error' events
\* and of the request's 'error' event, once the response has ended or an
\* error has occurred the promise is settled: resolved with the parsed
\* response body, or rejected with a failure.
C3_SettledOnceEndedOrErrored ==
  (call.fn = "getHttpPromise" /\ phase \in {"ended", "errored"}) =>
    \/ promise.state = "rejected"
    \/ promise.state = "fulfilled" /\ promise.value = JSONParse(data).val

\* C4: after a transport-level error, or a complete response text that is
\* not valid JSON, the promise is rejected with the error; the promise is
\* resolved only when the complete text parsed as JSON.
C4_ErrorOrBadJsonRejects ==
  call.fn = "getHttpPromise" =>
    /\ phase = "errored" => promise.state = "rejected"
    /\ (phase = "ended" /\ ~JSONParse(data).ok) =>
         (promise.state = "rejected" /\ promise.error = "SyntaxError")
    /\ promise.state = "fulfilled" =>
         (phase = "ended" /\ wire = <<>> /\ JSONParse(data).ok)
====
